---- MODULE Spec2Model ----
(***************************************************************************)
(* Model of stream_mapper/visualization/_diagnostic.py: the panel wrapper  *)
(* _with_ax_panels, the component trend renderer                           *)
(* _plot_coordinate_component, the coordinate panel renderer               *)
(* _plot_coordinate_panel and the figure composer                          *)
(* astrometric_model_panels.                                               *)
(*                                                                         *)
(* The drawing surface is a list of axes; every axes keeps the sequence of *)
(* method calls made on it (plot, fill_between, hist2d, legend, ...) and   *)
(* the position of its colour cycle.  Arrays are functions over Rows.      *)
(* Params keys are dotted names, written here as the sequence of their     *)
(* segments: "stream.weight" is <<"stream", "weight">>, "weight" is        *)
(* <<"weight">>; `key in mpars` and mpars.get(key) look the key up among   *)
(* the mapping's own keys.  Weights are integers in units of the default   *)
(* min_weight.  What is drawn is recorded by name (which column, which     *)
(* parameter, which rows), not by value.  The decorators around            *)
(* astrometric_model_panels (make_tuple, with_tight_layout,                *)
(* add_savefig_option) live outside this file and are not modelled.        *)
(* Some definitions are preceded by faulty variants of them (X_strict,     *)
(* X_lax, ...), used to show that a property depends on X.                 *)
(***************************************************************************)
EXTENDS Integers, Sequences, FiniteSets, TLC

VARIABLES pc, entry, data, mpars, components, args, tr, i

vars == <<pc, entry, data, mpars, components, args, tr, i>>

\* ------------------------------------------------------------------ bounds
NRows == 2
MaxComponents == 3
MaxCoords == 2

Rows == 1..NRows

\* --------------------------------------------------------------- constants
BACKGROUND_KEY == "background"
WEIGHT_NAME == "weight"
DefaultMinWeight == 1

ComponentNames == {BACKGROUND_KEY, "stream", "spur"}
CoordNames == {"phi2", "pmphi1"}
ColumnNames == {"phi1"} \cup CoordNames
LayoutKeys == {"ax", "ax_top", "fig", "gs"}

RECURSIVE SeqsUpTo(_, _)
SeqsUpTo(S, n) ==
    IF n = 0 THEN {<<>>}
    ELSE LET shorter == SeqsUpTo(S, n - 1)
         IN shorter \cup {Append(s, x) : s \in {t \in shorter : Len(t) = n - 1}, x \in S}

Range(s) == {s[k] : k \in 1..Len(s)}

AllRows == [k \in Rows |-> k]

\* ------------------------------------------------------------- Data, Params
\* One Data table: equal-length columns, sorted by phi1.
DataTable ==
    [c \in ColumnNames |->
        [r \in Rows |-> IF c = "phi1" THEN r
                        ELSE IF c = "phi2" THEN (IF r = 1 THEN 4 ELSE 7 - r)
                        ELSE 10 - r]]

WeightStep == [r \in Rows |-> IF r = 1 THEN 0 ELSE 2]
WeightHigh == [r \in Rows |-> IF r = 1 THEN 3 ELSE 1]
NoArray == [r \in Rows |-> 0]

\* An optional value: <<>> is None, <<v>> is the value v.
None == <<>>
Some(v) == <<v>>

\* Dotted name f"{a}.{b}".
Dotted(a, b) == <<a, b>>

\* A Params mapping: every component has (mu, ln-sigma) for every coordinate;
\* bw, sw, pw are the optional weights of background, stream and spur and tw
\* says whether an unprefixed top-level entry "weight" exists.
MkParams(bw, sw, pw, tw) ==
    LET opt == [c \in ComponentNames |->
                    IF c = BACKGROUND_KEY THEN bw ELSE IF c = "stream" THEN sw ELSE pw]
        keys == {Dotted(c, q) : c \in ComponentNames, q \in CoordNames}
                \cup {Dotted(c, WEIGHT_NAME) : c \in {d \in ComponentNames : opt[d] # None}}
                \cup (IF tw THEN {<<WEIGHT_NAME>>} ELSE {})
    IN [k \in keys |->
            IF k = <<WEIGHT_NAME>> THEN [kinds |-> {}, arr |-> WeightHigh]
            ELSE IF k[2] = WEIGHT_NAME THEN [kinds |-> {}, arr |-> opt[k[1]][1]]
            ELSE [kinds |-> {"mu", "ln-sigma"}, arr |-> NoArray]]

ParamsSet ==
    {MkParams(bw, sw, pw, tw) :
        bw \in {Some(WeightHigh)},
        sw \in {None, Some(WeightStep)},
        pw \in {Some(WeightHigh)},
        tw \in BOOLEAN}

\* Params.get(key): the entry, or None.
Get(mp, key) == IF key \in DOMAIN mp THEN Some(mp[key]) ELSE None

\* Params.get_prefixed(prefix): the entries whose name starts with "prefix.",
\* with that prefix stripped.
GetPrefixed(mp, prefix) ==
    LET keys == {k \in DOMAIN mp : Len(k) > 1 /\ Head(k) = prefix}
    IN [k \in {Tail(j) : j \in keys} |-> mp[<<prefix>> \o k]]

\* ps[coord, kind] exists.
HasItem(ps, coord, kind) == <<coord>> \in DOMAIN ps /\ kind \in ps[<<coord>>].kinds

\* ---------------------------------------------------------- drawing surface
\* One method call on an axes.  x is the Data column on the horizontal axis,
\* rows the rows of it that are passed, ndim the number of dimensions of the
\* x array, y what is drawn (by name), color "cycle" with cidx the position
\* in the axes' colour cycle, or a fixed colour.
Call(op, x, rows, ndim, y, label, color, cidx) ==
    [op |-> op, x |-> x, rows |-> rows, ndim |-> ndim, y |-> y, label |-> label,
     color |-> color, cidx |-> cidx, lo |-> 0, hi |-> 0]

Setter(op, y) == Call(op, "", <<>>, 0, y, <<>>, "", 0)

\* An axes: `created` says fig.add_subplot made it, `gs` is the column of the
\* figure's 1 x len(coords) GridSpec whose sub-grid it sits in (0: none).
NewAxes(created, sharex, gs, calls) ==
    [created |-> created, sharex |-> sharex, gs |-> gs, calls |-> calls, cycle |-> 0]

\* Axes 1 and 2 exist before any call: a pair the caller may pass as ax, ax_top.
InitTrace ==
    [axes |-> <<NewAxes(FALSE, 0, 0, <<>>), NewAxes(FALSE, 0, 0, <<>>)>>,
     invoked |-> <<>>, figs |-> 0, ncols |-> 0, err |-> "none"]

\* a.method(...): append the call; adv colours are taken from the cycle.
OnAxes(t, a, call, adv) ==
    [t EXCEPT !.axes[a].calls = Append(@, call), !.axes[a].cycle = @ + adv]

Raise(t, e) == [t EXCEPT !.err = e]

Invoke(t, fn, component, coord, where, ax, ax_top) ==
    [t EXCEPT !.invoked = Append(@, [fn |-> fn, component |-> component, coord |-> coord,
                                     where |-> where, ax |-> ax, ax_top |-> ax_top])]

\* ------------------------------------------------------------ visibility mask
NoMask == [given |-> FALSE, mask |-> [r \in Rows |-> TRUE]]
Mask(m) == [given |-> TRUE, mask |-> m]

\* (weight >= min_weight), element-wise.  Faulty variant: a strict comparison.
WhereMask_strict(weight, min_weight) == [r \in Rows |-> weight[r] > min_weight]
WhereMask(weight, min_weight) == [r \in Rows |-> weight[r] >= min_weight]

\* phi1[where]: the rows a boolean mask selects; phi1[None] is the whole array
\* with a new leading axis (shape (1, N)).  Faulty variant: the mask is ignored.
Index_all(where) == AllRows
Index(where) ==
    IF where.given THEN SelectSeq(AllRows, LAMBDA r : where.mask[r]) ELSE AllRows
NDim(where) == IF where.given THEN 1 ELSE 2
\* Axes.plot draws one line per column of a 2-D x.
NLines(where) == IF where.given THEN 1 ELSE NRows

\* fill_between(x, ..., where=where): the rows of x that are filled.
FillWhere(where) ==
    IF where.given THEN SelectSeq(AllRows, LAMBDA r : where.mask[r]) ELSE AllRows

\* ---------------------------------------------------------- _with_ax_panels
\* kw.keys are the layout keywords present in kwargs; kw.ax, kw.ax_top their
\* values (0 is None), kw.gs the grid cell passed as gs.  Result: the trace,
\* the pair handed to the plotting function, and the layout keywords still in
\* kwargs.
\* The `elif "fig" in kwargs and "gs" in kwargs` branch: a value panel and a
\* weight panel sharing its x axis are added to the figure, in the cell gs.
NewPanels(t, gs, coord) ==
    LET n == Len(t.axes)
        ax == NewAxes(TRUE, 0, gs, <<Setter("set_xlabel", <<"phi1">>),
                                     Setter("set_ylabel", <<coord>>)>>)
        ax_top == NewAxes(TRUE, n + 1, gs, <<Setter("tick_params", <<>>),
                                             Setter("set_ylabel", <<"weight">>)>>)
    IN [tr |-> [t EXCEPT !.axes = @ \o <<ax, ax_top>>],
        ax |-> n + 1, ax_top |-> n + 2, extra |-> {}]

\* Faulty variant of the wrapper: without a complete pair the plotting
\* function is called all the same.
WithAxPanels_lax(t, kw, coord) ==
    IF "fig" \in kw.keys /\ "gs" \in kw.keys /\ ~("ax" \in kw.keys /\ "ax_top" \in kw.keys)
    THEN NewPanels(t, kw.gs, coord)
    ELSE [tr |-> t, ax |-> kw.ax, ax_top |-> kw.ax_top, extra |-> kw.keys \cap {"fig", "gs"}]
WithAxPanels(t, kw, coord) ==
    IF "ax" \in kw.keys /\ "ax_top" \in kw.keys
    THEN [tr |-> t, ax |-> kw.ax, ax_top |-> kw.ax_top, extra |-> kw.keys \cap {"fig", "gs"}]
    ELSE IF "fig" \in kw.keys /\ "gs" \in kw.keys
    THEN NewPanels(t, kw.gs, coord)
    ELSE [tr |-> Raise(t, "KeyError"), ax |-> 0, ax_top |-> 0, extra |-> {}]

\* ----------------------------------------------- _plot_coordinate_component
WeightY(component, log_weight) ==
    IF log_weight THEN <<"log", component, "weight">> ELSE <<component, "weight">>

PlotCoordinateComponent(t, mp, component, coord, log_weight, where, ax, ax_top, y, y_err) ==
    LET ps == GetPrefixed(mp, component)
    IN IF ~HasItem(ps, coord, y) \/ ~HasItem(ps, coord, y_err)
       THEN Raise(t, "KeyError")
       ELSE LET fc == t.axes[ax].cycle
                im == Call("plot", "phi1", Index(where), NDim(where),
                           <<component, coord, y>>, <<component>>, "cycle", fc)
                band2 == Call("fill_between", "phi1", FillWhere(where), 1,
                              <<component, coord, y, "+-2*exp", y_err>>, <<>>, "cycle", fc)
                band1 == Call("fill_between", "phi1", FillWhere(where), 1,
                              <<component, coord, y, "+-exp", y_err>>, <<>>, "cycle", fc)
                t1 == OnAxes(t, ax, im, NLines(where))
                t2 == OnAxes(t1, ax, band2, 0)
                t3 == OnAxes(t2, ax, band1, 0)
            IN IF ax_top # 0 /\ <<"weight">> \in DOMAIN ps
               THEN OnAxes(t3, ax_top,
                           Call("plot", "phi1", AllRows, 1, WeightY(component, log_weight),
                                <<component, "[weight]">>, "cycle", t3.axes[ax_top].cycle),
                           1)
               ELSE t3

\* The wrapped function as callers reach it: the wrapper, then the body.  The
\* body takes no **kwargs, so a layout keyword left in kwargs is a TypeError.
CallPlotCoordinateComponent(t, mp, kw, component, coord, log_weight, where, y, y_err) ==
    LET w == WithAxPanels(t, kw, coord)
    IN IF w.tr.err # "none" THEN w.tr
       ELSE IF w.extra # {} THEN Raise(w.tr, "TypeError")
       ELSE PlotCoordinateComponent(
                Invoke(w.tr, "_plot_coordinate_component", component, coord, where,
                       w.ax, w.ax_top),
                mp, component, coord, log_weight, where, w.ax, w.ax_top, y, y_err)

\* --------------------------------------------------- _plot_coordinate_panel
Min(f) == CHOOSE v \in {f[r] : r \in Rows} : \A r \in Rows : v <= f[r]
Max(f) == CHOOSE v \in {f[r] : r \in Rows} : \A r \in Rows : v >= f[r]

\* coord2par.get(coord, coord)
DictGet(dict, key, default) == IF key \in DOMAIN dict THEN dict[key] ELSE default

\* Step 1: the raw data, as points or as a 2-D histogram.
PlotData(t, indep_coord, coord, use_hist, ax) ==
    IF use_hist
    THEN OnAxes(t, ax, Call("hist2d", indep_coord, AllRows, 1, <<"data", coord>>,
                            <<>>, "Greys", 0), 0)
    ELSE OnAxes(t, ax, Call("plot", indep_coord, AllRows, 1, <<"data", coord>>,
                            <<>>, "black", 0), 0)

\* components.index(BACKGROUND_KEY)
IndexOf(comps, name) ==
    CHOOSE k \in 1..Len(comps) : comps[k] = name /\ \A j \in 1..(k - 1) : comps[j] # name

\* "Skip the background component": components is rebound to a new sequence
\* without the entry at the index found; `caller` is the sequence object the
\* caller passed, as the call leaves it.  Faulty variants: background is left
\* in the iteration list; background is removed from the caller's sequence.
SkipBackground_keep(comps) ==
    [components |-> comps, has_background |-> BACKGROUND_KEY \in Range(comps),
     caller |-> comps]
SkipBackground_inplace(comps) ==
    IF BACKGROUND_KEY \in Range(comps)
    THEN LET k == IndexOf(comps, BACKGROUND_KEY)
             rest == SubSeq(comps, 1, k - 1) \o SubSeq(comps, k + 1, Len(comps))
         IN [components |-> rest, has_background |-> TRUE, caller |-> rest]
    ELSE [components |-> comps, has_background |-> FALSE, caller |-> comps]
SkipBackground(comps) ==
    IF BACKGROUND_KEY \in Range(comps)
    THEN LET k == IndexOf(comps, BACKGROUND_KEY)
         IN [components |-> SubSeq(comps, 1, k - 1) \o SubSeq(comps, k + 1, Len(comps)),
             has_background |-> TRUE, caller |-> comps]
    ELSE [components |-> comps, has_background |-> FALSE, caller |-> comps]

\* "Include background in top plot, if applicable"
PlotBackgroundWeight(t, mp, indep_coord, log_weight, ax_top) ==
    IF <<BACKGROUND_KEY, WEIGHT_NAME>> \notin DOMAIN mp
    THEN Raise(t, "KeyError")
    ELSE OnAxes(t, ax_top,
                Call("plot", indep_coord, AllRows, 1, WeightY(BACKGROUND_KEY, log_weight),
                     <<"background[weight]">>, "black", 0),
                0)

\* for comp in components: ...
RECURSIVE OverlayLoop(_, _, _, _, _, _, _, _)
OverlayLoop(t, mp, comps, par, log_weight, min_weight, ax, ax_top) ==
    IF comps = <<>> \/ t.err # "none" THEN t
    ELSE LET comp == Head(comps)
             weight == Get(mp, Dotted(comp, WEIGHT_NAME))
             where == IF weight # None
                      THEN Mask(WhereMask(weight[1].arr, min_weight))
                      ELSE NoMask
             t1 == CallPlotCoordinateComponent(
                       t, mp, [keys |-> {"ax", "ax_top"}, ax |-> ax, ax_top |-> ax_top, gs |-> 0],
                       comp, par, log_weight, where, "mu", "ln-sigma")
         IN OverlayLoop(t1, mp, Tail(comps), par, log_weight, min_weight, ax, ax_top)

\* "Bottom plot" and "top plot": limits, legends, scale.
Finalize(t, d, mp, coord, ax, ax_top) ==
    LET t1 == OnAxes(t, ax, [Setter("set_ylim", <<"data", coord>>)
                                 EXCEPT !.lo = Min(d[coord]), !.hi = Max(d[coord])], 0)
        t2 == OnAxes(t1, ax, Setter("legend", <<>>), 0)
        t3 == IF <<"weight">> \in DOMAIN mp
              THEN OnAxes(t2, ax_top, Setter("legend", <<>>), 0)
              ELSE t2
    IN OnAxes(t3, ax_top, Setter("set_yscale", <<>>), 0)

\* The body of _plot_coordinate_panel.  Result: the trace and the caller's
\* components sequence after the call.
PlotCoordinatePanel(t, d, mp, indep_coord, coord, comps, coord2par, ax, ax_top, log_weight, min_weight, use_hist) ==
    LET t1 == PlotData(t, indep_coord, coord, use_hist, ax)
        sk == SkipBackground(comps)
        t2 == IF sk.has_background
              THEN PlotBackgroundWeight(t1, mp, indep_coord, log_weight, ax_top)
              ELSE t1
        t3 == OverlayLoop(t2, mp, sk.components, DictGet(coord2par, coord, coord),
                          log_weight, min_weight, ax, ax_top)
    IN [tr |-> IF t3.err # "none" THEN t3 ELSE Finalize(t3, d, mp, coord, ax, ax_top),
        caller |-> sk.caller]

\* The wrapped function as callers reach it.  Layout keywords left in kwargs
\* land in the body's **kwargs and are ignored there.
CallPlotCoordinatePanel(t, d, mp, kw, indep_coord, coord, comps, coord2par, log_weight, min_weight, use_hist) ==
    LET w == WithAxPanels(t, kw, coord)
    IN IF w.tr.err # "none" THEN [tr |-> w.tr, caller |-> comps]
       ELSE PlotCoordinatePanel(
                Invoke(w.tr, "_plot_coordinate_panel", "", coord, NoMask, w.ax, w.ax_top),
                d, mp, indep_coord, coord, comps, coord2par, w.ax, w.ax_top,
                log_weight, min_weight, use_hist)

\* ------------------------------------------------- astrometric_model_panels
\* if "coord" in kwargs: raise ValueError.  Faulty variant: only when coords
\* is not given as well.
CoordOptionRejected_unlessCoords(kwkeys, coords_given) == "coord" \in kwkeys /\ ~coords_given
CoordOptionRejected(kwkeys, coords_given) == "coord" \in kwkeys

\* The keyword arguments of the _plot_coordinate_panel call for column n of
\* the GridSpec (gs[i] with n = i + 1): fig and gs, plus whatever layout
\* keywords the caller's **kwargs carry.
CellKwargs(kwkeys, n) ==
    [keys |-> {"fig", "gs"} \cup (kwkeys \cap {"ax", "ax_top"}), ax |-> 1, ax_top |-> 2,
     gs |-> n]

\* ------------------------------------------------------------------- inputs
DefaultConfig == [log_weight |-> FALSE, min_weight |-> DefaultMinWeight, use_hist |-> FALSE]
Configs ==
    {DefaultConfig,
     [log_weight |-> FALSE, min_weight |-> 3, use_hist |-> TRUE],
     [log_weight |-> TRUE, min_weight |-> 3, use_hist |-> FALSE]}
NoDict == [c \in {} |-> ""]
Coord2Pars == {NoDict, [c \in {"pmphi1"} |-> "phi2"]}

\* The keyword arguments tried on _plot_coordinate_panel: each of the two
\* complete layouts with every target and configuration, and every other
\* combination of layout keywords with the defaults.
PanelInputs ==
    [keys : {{"ax", "ax_top"}, {"fig", "gs"}}, indep_coord : {"phi1", "phi2"},
     coord : CoordNames, coord2par : Coord2Pars, cfg : Configs]
    \cup [keys : SUBSET LayoutKeys, indep_coord : {"phi1"}, coord : {"phi2"},
          coord2par : {NoDict}, cfg : {DefaultConfig}]

ComponentSeqs == SeqsUpTo(ComponentNames, MaxComponents)
CoordSeqs == SeqsUpTo(CoordNames, MaxCoords) \ {<<>>}

\* The keyword arguments tried on astrometric_model_panels: coords given or
\* left to its default ("phi2",); the extra keywords coord, ax, ax_top absent,
\* alone or together, with the default configuration; and every
\* configuration with the default coords and no extra keyword.
ExtraKeywords ==
    {{}, {"coord"}, {"ax"}, {"ax", "ax_top"}, {"coord", "ax", "ax_top"}}
ModelPanelsInputs ==
    [coords : CoordSeqs, coords_given : {TRUE}, kwkeys : ExtraKeywords,
     cfg : {DefaultConfig}]
    \cup [coords : {<<"phi2">>}, coords_given : {FALSE}, kwkeys : ExtraKeywords,
          cfg : {DefaultConfig}]
    \cup [coords : {<<"phi2">>}, coords_given : {FALSE}, kwkeys : {{}}, cfg : Configs]
Masks == {NoMask} \cup {Mask(m) : m \in [Rows -> BOOLEAN]}

\* The keyword arguments tried on _plot_coordinate_component: the complete
\* layout (ax, ax_top), ax_top an axes or None, with every component,
\* coordinate (one of them without parameters), mask and log_weight, and
\* every other combination of layout keywords with the defaults.
ComponentInputs ==
    [keys : {{"ax", "ax_top"}}, component : ComponentNames,
     coord : CoordNames \cup {"distmod"}, where : Masks, log_weight : BOOLEAN,
     ax_top : {0, 2}]
    \cup [keys : SUBSET LayoutKeys, component : {"stream"}, coord : {"phi2"},
          where : {NoMask}, log_weight : {FALSE}, ax_top : {2}]

Args(coords, coords_given, kwkeys, indep_coord, coord, coord2par, cfg, component, where, ax_top) ==
    [coords |-> coords, coords_given |-> coords_given, kwkeys |-> kwkeys,
     indep_coord |-> indep_coord, coord |-> coord, coord2par |-> coord2par, cfg |-> cfg,
     component |-> component, where |-> where, ax_top |-> ax_top]

NoArgs == Args(<<>>, FALSE, {}, "", "", NoDict, DefaultConfig, "", NoMask, 0)

\* ------------------------------------------------------------ state machine
Init ==
    /\ pc = "idle"
    /\ entry = ""
    /\ data = DataTable
    /\ mpars \in ParamsSet
    /\ components = <<>>
    /\ args = NoArgs
    /\ tr = InitTrace
    /\ i = 0

\* astrometric_model_panels, up to the loop over coords: the `coord` check,
\* then plt.figure and the GridSpec.
AstrometricModelPanels ==
    /\ pc = "idle"
    /\ \E comps \in ComponentSeqs, inp \in ModelPanelsInputs :
        /\ entry' = "astrometric_model_panels"
        /\ components' = comps
        /\ args' = Args(inp.coords, inp.coords_given, inp.kwkeys, "phi1", "", NoDict, inp.cfg,
                        "", NoMask, 0)
        /\ IF CoordOptionRejected(inp.kwkeys, inp.coords_given)
           THEN /\ tr' = Raise(tr, "ValueError")
                /\ pc' = "done"
           ELSE /\ tr' = [tr EXCEPT !.figs = @ + 1, !.ncols = Len(inp.coords)]
                /\ pc' = "cells"
    /\ i' = 0
    /\ UNCHANGED <<data, mpars>>

\* One iteration of `for i, cn in enumerate(coords)`.
RenderCell ==
    /\ pc = "cells"
    /\ i < Len(args.coords)
    /\ LET r == CallPlotCoordinatePanel(tr, data, mpars, CellKwargs(args.kwkeys, i + 1),
                                        "phi1",
                                        args.coords[i + 1], components, args.coord2par,
                                        args.cfg.log_weight, args.cfg.min_weight,
                                        args.cfg.use_hist)
       IN /\ tr' = r.tr
          /\ components' = r.caller
          /\ pc' = IF r.tr.err # "none" THEN "done" ELSE "cells"
    /\ i' = i + 1
    /\ UNCHANGED <<entry, data, mpars, args>>

\* return fig
ReturnFigure ==
    /\ pc = "cells"
    /\ i = Len(args.coords)
    /\ pc' = "done"
    /\ UNCHANGED <<entry, data, mpars, components, args, tr, i>>

\* A direct call of _plot_coordinate_panel(model, data, mpars, **kw).
DirectPanel ==
    /\ pc = "idle"
    /\ \E comps \in ComponentSeqs, inp \in PanelInputs :
        /\ entry' = "_plot_coordinate_panel"
        /\ args' = Args(<<>>, FALSE, inp.keys, inp.indep_coord, inp.coord, inp.coord2par, inp.cfg,
                        "", NoMask, 0)
        /\ LET r == CallPlotCoordinatePanel(tr, data, mpars,
                                            [keys |-> inp.keys, ax |-> 1, ax_top |-> 2, gs |-> 1],
                                            inp.indep_coord, inp.coord, comps, inp.coord2par,
                                            inp.cfg.log_weight, inp.cfg.min_weight,
                                            inp.cfg.use_hist)
           IN /\ tr' = r.tr
              /\ components' = r.caller
    /\ pc' = "done"
    /\ UNCHANGED <<data, mpars, i>>

\* A direct call of _plot_coordinate_component(model, data, mpars, **kw).
DirectComponent ==
    /\ pc = "idle"
    /\ \E inp \in ComponentInputs :
        /\ entry' = "_plot_coordinate_component"
        /\ args' = Args(<<>>, FALSE, inp.keys, "phi1", inp.coord, NoDict,
                        [DefaultConfig EXCEPT !.log_weight = inp.log_weight],
                        inp.component, inp.where, inp.ax_top)
        /\ tr' = CallPlotCoordinateComponent(
                      tr, mpars, [keys |-> inp.keys, ax |-> 1, ax_top |-> inp.ax_top, gs |-> 1],
                      inp.component, inp.coord, inp.log_weight, inp.where,
                      "mu", "ln-sigma")
    /\ pc' = "done"
    /\ UNCHANGED <<data, mpars, components, i>>

\* Calls of the public entry point astrometric_model_panels.
Next ==
    \/ AstrometricModelPanels
    \/ RenderCell
    \/ ReturnFigure

Spec == Init /\ [][Next]_vars

\* Direct calls of the two wrapped renderers.
NextRenderer ==
    \/ DirectPanel
    \/ DirectComponent

RendererSpec == Init /\ [][NextRenderer]_vars

\* ------------------------------------------------------------------ claims
PanelFn == "_plot_coordinate_panel"
ComponentFn == "_plot_coordinate_component"

Returned == pc = "done" /\ tr.err = "none"
PanelCalls == SelectSeq(tr.invoked, LAMBDA c : c.fn = PanelFn)
ComponentCalls == SelectSeq(tr.invoked, LAMBDA c : c.fn = ComponentFn)
CallsOn(a) == tr.axes[a].calls
PlotsOn(a) == SelectSeq(CallsOn(a), LAMBDA c : c.op = "plot")
\* Trend lines, weight curves of the overlay loop, bands, raw data, legends.
TrendLines(a) == SelectSeq(CallsOn(a), LAMBDA c : c.op = "plot" /\ c.color = "cycle")
Bands(a) == SelectSeq(CallsOn(a), LAMBDA c : c.op = "fill_between")
DataDraws(a) == SelectSeq(CallsOn(a), LAMBDA c : c.op \in {"plot", "hist2d"} /\ c.color # "cycle"
                                                  /\ Len(c.y) > 0 /\ c.y[1] = "data")
Legends(a) == SelectSeq(CallsOn(a), LAMBDA c : c.op = "legend")
IsWeightCurve(c) == c.op = "plot" /\ c.y[Len(c.y)] = "weight"
HasWeight(comp) == <<comp, "weight">> \in DOMAIN mpars
Others == SelectSeq(components, LAMBDA c : c # BACKGROUND_KEY)
RowsSelected(where) ==
    IF where.given THEN SelectSeq(AllRows, LAMBDA r : where.mask[r]) ELSE AllRows

\* C1: no component handed to _plot_coordinate_component by the overlay loop
\* of _plot_coordinate_panel is the reserved background name.
C1_NoBackgroundInLoop ==
    entry = PanelFn =>
        \A k \in 1..Len(ComponentCalls) : ComponentCalls[k].component # BACKGROUND_KEY

\* C2: the mask handed to _plot_coordinate_component for a component is
\* (its own weight >= min_weight) row by row when it has a weight, and absent
\* when it has none.
C2_MaskFromOwnWeight ==
    entry = PanelFn =>
        \A k \in 1..Len(ComponentCalls) :
            LET c == ComponentCalls[k]
            IN IF HasWeight(c.component)
               THEN /\ c.where.given
                    /\ \A r \in Rows :
                         c.where.mask[r]
                             <=> (mpars[<<c.component, "weight">>].arr[r] >= args.cfg.min_weight)
               ELSE ~c.where.given

C2_Witness ==
    /\ entry = PanelFn
    /\ \E j, k \in 1..Len(ComponentCalls) :
        /\ ComponentCalls[j].component = "stream"
        /\ ComponentCalls[k].component = "spur"
        /\ ComponentCalls[j].where.given
        /\ ComponentCalls[j].where.mask # ComponentCalls[k].where.mask
        /\ \E r \in Rows : mpars[<<"spur", "weight">>].arr[r] = args.cfg.min_weight

\* C3: with background plus k other weight-bearing components, the weight
\* panel gets k+1 weight curves, background[weight] first and the others in
\* the given order, and the value panel gets k trend overlays (a line, then
\* its 2-sigma and 1-sigma bands), none for background.
C3_Premise ==
    /\ entry = PanelFn
    /\ Returned
    /\ Cardinality({k \in 1..Len(components) : components[k] = BACKGROUND_KEY}) = 1
    /\ \A k \in 1..Len(components) : HasWeight(components[k])

C3_BackgroundFirstThenOthers ==
    C3_Premise =>
        LET ax == PanelCalls[1].ax
            ax_top == PanelCalls[1].ax_top
            k == Len(Others)
            lines == TrendLines(ax)
            first == Len(CallsOn(ax)) - (3 * k + 2)
        IN /\ Len(PlotsOn(ax_top)) = k + 1
           /\ PlotsOn(ax_top)[1].label = <<"background[weight]">>
           /\ PlotsOn(ax_top)[1].color = "black"
           /\ \A j \in 1..k : /\ PlotsOn(ax_top)[j + 1].label = <<Others[j], "[weight]">>
                              /\ PlotsOn(ax_top)[j + 1].color = "cycle"
           /\ Len(lines) = k
           /\ Len(Bands(ax)) = 2 * k
           /\ \A j \in 1..k :
                /\ CallsOn(ax)[first + 3 * j - 2].op = "plot"
                /\ CallsOn(ax)[first + 3 * j - 2].label = <<Others[j]>>
                /\ CallsOn(ax)[first + 3 * j - 1].op = "fill_between"
                /\ CallsOn(ax)[first + 3 * j - 1].y[1] = Others[j]
                /\ CallsOn(ax)[first + 3 * j - 1].y[4] = "+-2*exp"
                /\ CallsOn(ax)[first + 3 * j].op = "fill_between"
                /\ CallsOn(ax)[first + 3 * j].y[1] = Others[j]
                /\ CallsOn(ax)[first + 3 * j].y[4] = "+-exp"
           /\ \A j \in 1..Len(CallsOn(ax)) :
                CallsOn(ax)[j].op \in {"plot", "fill_between"} /\ CallsOn(ax)[j].color = "cycle"
                    => CallsOn(ax)[j].y[1] # BACKGROUND_KEY

C3_Witness ==
    /\ C3_Premise
    /\ Len(components) = 3
    /\ components[1] # BACKGROUND_KEY
    /\ components[1] # components[3]
    /\ Len(PlotsOn(PanelCalls[1].ax_top)) = 3

\* C4: a wrapped call that supplies neither the complete pair (ax, ax_top)
\* nor the complete pair (fig, gs) fails with an error; the wrapped function
\* is not invoked, no sub-panel is added and nothing is drawn.
C4_Premise ==
    /\ entry \in {PanelFn, ComponentFn}
    /\ ~({"ax", "ax_top"} \subseteq args.kwkeys)
    /\ ~({"fig", "gs"} \subseteq args.kwkeys)

C4_NoLayoutFailsFast ==
    C4_Premise =>
        /\ pc = "done"
        /\ tr.err = "KeyError"
        /\ tr.invoked = <<>>
        /\ tr.axes = InitTrace.axes

C4_Witness == C4_Premise /\ entry = PanelFn /\ args.kwkeys = {"ax", "fig"} /\ pc = "done"

ModelPanelsFn == "astrometric_model_panels"

\* C5: astrometric_model_panels called with the option `coord` fails with a
\* ValueError before any figure or sub-panel is created and before any
\* renderer is invoked, whether or not `coords` is supplied.
C5_CoordOptionRejected ==
    entry = ModelPanelsFn /\ "coord" \in args.kwkeys =>
        /\ pc = "done"
        /\ tr.err = "ValueError"
        /\ tr.figs = 0
        /\ tr.invoked = <<>>
        /\ tr.axes = InitTrace.axes

C5_Witness ==
    /\ entry = ModelPanelsFn
    /\ "coord" \in args.kwkeys
    /\ args.coords_given
    /\ Len(args.coords) = 2
    /\ pc = "done"

\* The panels fig.add_subplot placed in column n of the figure's GridSpec.
PanelsInColumn(n) == {a \in 1..Len(tr.axes) : tr.axes[a].created /\ tr.axes[a].gs = n}

\* One cell per entry of coords, left to right: column j of the figure holds
\* exactly the pair of panels the j-th renderer call drew coords[j] on, a
\* pair created for it and used by no other cell; cells of the same
\* coordinate hold the same calls.
OneFreshCellPerCoord ==
    /\ tr.figs = 1
    /\ tr.ncols = Len(args.coords)
    /\ Len(PanelCalls) = Len(args.coords)
    /\ \A j \in 1..Len(PanelCalls) :
        LET c == PanelCalls[j]
        IN /\ c.coord = args.coords[j]
           /\ c.ax # c.ax_top
           /\ PanelsInColumn(j) = {c.ax, c.ax_top}
           /\ tr.axes[c.ax_top].sharex = c.ax
           /\ Len(DataDraws(c.ax)) = 1
           /\ DataDraws(c.ax)[1].y = <<"data", c.coord>>
           /\ Len(Legends(c.ax)) = 1
    /\ \A j, k \in 1..Len(PanelCalls) :
        LET c == PanelCalls[j]
            e == PanelCalls[k]
        IN /\ j # k => {c.ax, c.ax_top} \cap {e.ax, e.ax_top} = {}
           /\ c.coord = e.coord => /\ CallsOn(c.ax) = CallsOn(e.ax)
                                   /\ CallsOn(c.ax_top) = CallsOn(e.ax_top)

\* C6: every call of astrometric_model_panels that returns has rendered one
\* cell per entry of coords, left to right in the given order, each on its own
\* freshly created pair of panels, equal coordinates giving equal cells.
C6_OneFreshCellPerCoord ==
    entry = ModelPanelsFn /\ Returned => OneFreshCellPerCoord

\* C7: at the end of _plot_coordinate_panel the value panel has a legend,
\* and the weight panel has one exactly when a weight curve was plotted on it.
C7_WeightLegendIffWeightCurve ==
    entry = PanelFn /\ Returned =>
        LET ax == PanelCalls[1].ax
            ax_top == PanelCalls[1].ax_top
        IN /\ Len(Legends(ax)) = 1
           /\ Len(Legends(ax_top)) = 1
                <=> \E k \in 1..Len(CallsOn(ax_top)) : IsWeightCurve(CallsOn(ax_top)[k])

\* The background curve drawn by the panel itself (not by the overlay loop).
IsBackgroundCurve(c) ==
    c.op = "plot" /\ c.color = "black" /\ c.label = <<"background[weight]">>

\* Every rendered cell drew the background weight curve first on its weight
\* panel, when background is requested.
BackgroundInEveryCell ==
    entry = ModelPanelsFn /\ tr.err = "none" /\ BACKGROUND_KEY \in Range(components) =>
        \A j \in 1..Len(PanelCalls) :
            LET top == PanelCalls[j].ax_top
                users == {k \in 1..Len(PanelCalls) : PanelCalls[k].ax_top = top}
            IN /\ Len(SelectSeq(CallsOn(top), IsBackgroundCurve)) = Cardinality(users)
               /\ IsBackgroundCurve(PlotsOn(top)[1])

\* C8: no step of a rendering call changes Data, Params or the caller's
\* components sequence, and background precedence holds in every cell.
C8_InputsUnchanged ==
    [][/\ data' = data
       /\ mpars' = mpars
       /\ (pc # "idle" => components' = components)
       /\ BackgroundInEveryCell']_vars

C8_Witness ==
    /\ entry = ModelPanelsFn
    /\ Returned
    /\ i = 2
    /\ Len(PanelCalls) = 2
    /\ args.kwkeys = {}
    /\ BACKGROUND_KEY \in Range(components)
    /\ Len(components) > 1
    /\ IsBackgroundCurve(PlotsOn(PanelCalls[2].ax_top)[1])

\* C9: _plot_coordinate_component draws the trend line and both bands at the
\* rows the mask selects (all rows without a mask), and the weight curve, only
\* when a weight panel is given and the component has a weight, at all rows.
C9_Premise == entry = ComponentFn /\ Returned

C9_MaskedTrendUnmaskedWeight ==
    C9_Premise =>
        LET c == ComponentCalls[1]
            sel == RowsSelected(args.where)
        IN /\ Len(ComponentCalls) = 1
           /\ Len(TrendLines(c.ax)) = 1
           /\ TrendLines(c.ax)[1].rows = sel
           /\ Len(Bands(c.ax)) = 2
           /\ \A k \in 1..2 : Bands(c.ax)[k].rows = sel
           /\ \A a \in 1..Len(tr.axes) :
                LET curves == SelectSeq(CallsOn(a), IsWeightCurve)
                IN IF a = c.ax_top /\ HasWeight(args.component)
                   THEN /\ Len(curves) = 1
                        /\ curves[1].rows = AllRows
                        /\ curves[1].label = <<args.component, "[weight]">>
                   ELSE curves = <<>>

C9_Witness ==
    /\ C9_Premise
    /\ args.where.given
    /\ \A r \in Rows : ~args.where.mask[r]
    /\ TrendLines(1)[1].rows = <<>>
    /\ Len(PlotsOn(2)) = 1
    /\ PlotsOn(2)[1].rows = AllRows

\* C10: within one _plot_coordinate_panel call everything is plotted against
\* the column named by indep_coord.
C10_EverythingAgainstIndepCoord ==
    entry = PanelFn =>
        \A a \in 1..Len(tr.axes) : \A k \in 1..Len(CallsOn(a)) :
            CallsOn(a)[k].x # "" => CallsOn(a)[k].x = args.indep_coord

====
